---- MODULE Spec2Model ----
(***************************************************************************)
(* Model of the two teaching artifacts of the repository:                  *)
(*   - the bit-flag demonstration (Go): the Flags constants, IsUp,         *)
(*     TurnDown, SetBroadcast, IsCast and main;                            *)
(*   - the data-access tutorial script (JavaScript): start, stop, test,    *)
(*     delay and main, run against an opaque library whose calls settle    *)
(*     asynchronously with success or failure.                             *)
(***************************************************************************)
EXTENDS Integers, Sequences, FiniteSets

VARIABLES
    \* ---- bit-flag demo: main's locals and its standard output
    gpc,        \* position of the demo: a line of main, "done", "funcs" or "off"
    a, b, c,    \* main's uint locals
    v,          \* main's Flags local
    out,        \* what main printed, one record per Printf
    \* ---- bit-flag demo: the exported functions called on arbitrary values
    orig,       \* the Flags value the calls started from
    fv,         \* the Flags value now
    prev,       \* the Flags value before the last call
    last,       \* the last operation applied
    fb,         \* the bit the last AND-NOT / OR was given
    calls,      \* which of TurnDown / SetBroadcast were called so far
    \* ---- tutorial script: main, start, stop
    mpc,        \* position of main: "start", "delay", "test", "catch", "stop", "done",
                \* "exited" (the process ended on an uncaught failure) or "off"
    dynamodb,   \* the spawned database process: "null", "running" or "killed"
    logged,     \* what console.error was given (0: nothing)
    stopCalls,  \* how many times stop() was invoked
    killedBusy, \* whether a library call was still outstanding when stop() killed the process
    \* ---- tutorial script: test
    pc,         \* index in Script of the statement test() is at
    testState,  \* "idle", "running", "returned" or "threw"
    awaiting,   \* source line of the awaited call that has not settled (0: none)
    err,        \* source line of the call whose failure test() threw (0: none)
    issued,     \* library calls test() has issued
    floating,   \* calls issued without await that have not settled
    rejected,   \* whether a call issued without await has failed
    i, count,   \* the batch loop's counters
    batch,      \* users queued in the current batch object
    flushed,    \* users that were in a batch passed to table.batchWrite
    flushes,    \* size of the batch at each table.batchWrite call
    start,      \* the paging cursor (0: undefined)
    findArgs,   \* the cursor given to each paged User.find call
    visited     \* the page each paged User.find call returned

goVars == <<gpc, a, b, c, v, out, orig, fv, prev, last, fb, calls>>

mainVars == <<mpc, dynamodb, logged, stopCalls, killedBusy>>

testVars == <<pc, testState, awaiting, err, issued>>

floatVars == <<floating, rejected>>

batchVars == <<i, count, batch, flushed, flushes>>

pageVars == <<start, findArgs, visited>>

jsVars == <<mainVars, testVars, floatVars, batchVars, pageVars>>

vars == <<goVars, jsVars>>

----------------------------------------------------------------------------
(* Bounds *)

\* Width of the Flags values the functions are called on (the platform's uint
\* is 32 or 64 bits wide).
WordBits == 8

Pow2(n) == 2 ^ n

Word == 0 .. (Pow2(WordBits) - 1)

----------------------------------------------------------------------------
(* Go's bitwise operators on unsigned integers *)

RECURSIVE BitAnd(_, _)
BitAnd(x, y) ==
    IF x = 0 \/ y = 0 THEN 0
    ELSE (x % 2) * (y % 2) + 2 * BitAnd(x \div 2, y \div 2)

RECURSIVE BitOr(_, _)
BitOr(x, y) ==
    IF x = 0 THEN y
    ELSE IF y = 0 THEN x
    ELSE (IF x % 2 = 1 \/ y % 2 = 1 THEN 1 ELSE 0) + 2 * BitOr(x \div 2, y \div 2)

RECURSIVE BitXor(_, _)
BitXor(x, y) ==
    IF x = 0 THEN y
    ELSE IF y = 0 THEN x
    ELSE (IF x % 2 # y % 2 THEN 1 ELSE 0) + 2 * BitXor(x \div 2, y \div 2)

\* x &^ y with And in place of AndNot (keeps the bits of y instead of clearing)
BitAndNot_keep(x, y) == BitAnd(x, y)

RECURSIVE BitAndNot(_, _)
BitAndNot(x, y) ==
    IF x = 0 THEN 0
    ELSE (x % 2) * (1 - (y % 2)) + 2 * BitAndNot(x \div 2, y \div 2)

\* x << n on a uint: no bit is lost while the result is below 2^32, and every
\* value of the model is
Shl(x, n) == x * Pow2(n)

Shr(x, n) == x \div Pow2(n)

\* bit k (0 = least significant) of x
Bit(x, k) == (x \div Pow2(k)) % 2

\* the %b verb: the binary digits, most significant first, no leading zeros
RECURSIVE FmtB(_)
FmtB(x) == IF x < 2 THEN <<x>> ELSE Append(FmtB(x \div 2), x % 2)

----------------------------------------------------------------------------
(* The Flags constants: 1 << iota *)

FlagUp == 1
FlagBroadcast == 2
FlagLoopback == 4
FlagPointToPoint == 8
FlagMulticast == 16

FlagBits == {FlagUp, FlagBroadcast, FlagLoopback, FlagPointToPoint, FlagMulticast}

IsUp(x) == BitAnd(x, FlagUp) = FlagUp

\* TurnDown with & in place of &^
TurnDown_and(x) == BitAnd(x, FlagUp)

\* TurnDown toggling the bit (^ in place of &^)
TurnDown_xor(x) == BitXor(x, FlagUp)

TurnDown(x) == BitAndNot(x, FlagUp)

\* SetBroadcast with the decimal-looking constant of the commented-out
\* declaration (FlagBroadcast uint = 10)
SetBroadcast_ten(x) == BitOr(x, 10)

SetBroadcast(x) == BitOr(x, FlagBroadcast)

IsCast(x) == BitAnd(x, BitOr(FlagBroadcast, FlagMulticast)) # 0

----------------------------------------------------------------------------
(* main of the bit-flag demo *)

Printed(tag, val) == [tag |-> tag, val |-> val]

GoIdle ==
    /\ a = 0 /\ b = 0 /\ c = 0 /\ v = 0 /\ out = <<>>

FuncsIdle ==
    /\ orig = 0 /\ fv = 0 /\ prev = 0 /\ last = "none" /\ fb = 0 /\ calls = {}

\* lines 28-30
MainLocals ==
    /\ gpc = "L28"
    /\ a' = 1
    /\ b' = 10
    /\ c' = 100
    /\ gpc' = "L34"
    /\ UNCHANGED <<v, out, orig, fv, prev, last, fb, calls, jsVars>>

\* lines 34-36
MainFlags ==
    /\ gpc = "L34"
    /\ LET nv == BitOr(FlagMulticast, FlagUp) IN
        /\ v' = nv
        /\ out' = out \o <<Printed("v", <<FmtB(nv), nv>>),
                           Printed("IsUp", <<FmtB(nv), IsUp(nv)>>)>>
    /\ gpc' = "L38"
    /\ UNCHANGED <<a, b, c, orig, fv, prev, last, fb, calls, jsVars>>

\* lines 38-39
MainTurnDown ==
    /\ gpc = "L38"
    /\ LET nv == TurnDown(v) IN
        /\ v' = nv
        /\ out' = Append(out, Printed("IsUp", <<FmtB(nv), IsUp(nv)>>))
    /\ gpc' = "L41"
    /\ UNCHANGED <<a, b, c, orig, fv, prev, last, fb, calls, jsVars>>

\* lines 41-43
MainSetBroadcast ==
    /\ gpc = "L41"
    /\ LET nv == SetBroadcast(v) IN
        /\ v' = nv
        /\ out' = out \o <<Printed("IsUp", <<FmtB(nv), IsUp(nv)>>),
                           Printed("IsCast", <<FmtB(nv), IsCast(nv)>>)>>
    /\ gpc' = "L45"
    /\ UNCHANGED <<a, b, c, orig, fv, prev, last, fb, calls, jsVars>>

\* one arithmetic line and its Printf
MainArith(at, next, tag, val) ==
    /\ gpc = at
    /\ c' = val
    /\ out' = Append(out, Printed(tag, val))
    /\ gpc' = next
    /\ UNCHANGED <<a, b, v, orig, fv, prev, last, fb, calls, jsVars>>

\* lines 45-46
MainAnd == MainArith("L45", "L48", "Line 1", BitAnd(a, b))

\* lines 48-49
MainOr == MainArith("L48", "L51", "Line 2", BitOr(a, b))

\* lines 51-52
MainXor == MainArith("L51", "L54", "Line 3", BitXor(a, b))

\* lines 54-55
MainShl == MainArith("L54", "L57", "Line 4", Shl(a, 2))

\* lines 57-58
MainShr == MainArith("L57", "done", "Line 5", Shr(a, 2))

----------------------------------------------------------------------------
(* The exported flag functions applied to arbitrary Flags values *)

Apply(op, bit, nv) ==
    /\ gpc = "funcs"
    /\ prev' = fv
    /\ fv' = nv
    /\ last' = op
    /\ fb' = bit
    /\ UNCHANGED <<gpc, a, b, c, v, out, orig, jsVars>>

CallTurnDown ==
    /\ last \in {"none", "TurnDown", "SetBroadcast"}
    /\ Apply("TurnDown", FlagUp, TurnDown(fv))
    /\ calls' = calls \cup {"TurnDown"}

CallSetBroadcast ==
    /\ last \in {"none", "TurnDown", "SetBroadcast"}
    /\ Apply("SetBroadcast", FlagBroadcast, SetBroadcast(fv))
    /\ calls' = calls \cup {"SetBroadcast"}

\* v &^= bit on a fresh value
ClearBit ==
    /\ last = "none"
    /\ \E bit \in FlagBits : Apply("AndNot", bit, BitAndNot(fv, bit))
    /\ UNCHANGED calls

\* v |= bit, the bit just cleared
SetBit ==
    /\ last = "AndNot"
    /\ Apply("Or", fb, BitOr(fv, fb))
    /\ UNCHANGED calls

----------------------------------------------------------------------------

JsIdle ==
    /\ mpc = "off" /\ dynamodb = "null" /\ logged = 0 /\ stopCalls = 0
    /\ killedBusy = FALSE
    /\ pc = 0 /\ testState = "idle" /\ awaiting = 0 /\ err = 0 /\ issued = 0
    /\ floating = 0 /\ rejected = FALSE
    /\ i = 0 /\ count = 0 /\ batch = {} /\ flushed = {} /\ flushes = <<>>
    /\ start = 0 /\ findArgs = <<>> /\ visited = <<>>

\* either the program is run (main), or the exported functions are called on
\* some Flags value
InitBits ==
    /\ JsIdle
    /\ GoIdle
    /\ prev = 0 /\ last = "none" /\ fb = 0 /\ calls = {}
    /\ \/ gpc = "L28" /\ orig = 0 /\ fv = 0
       \/ gpc = "funcs" /\ orig \in Word /\ fv = orig

NextBits ==
    \/ MainLocals
    \/ MainFlags
    \/ MainTurnDown
    \/ MainSetBroadcast
    \/ MainAnd
    \/ MainOr
    \/ MainXor
    \/ MainShl
    \/ MainShr
    \/ CallTurnDown
    \/ CallSetBroadcast
    \/ ClearBit
    \/ SetBit

SpecBits == InitBits /\ [][NextBits]_vars

----------------------------------------------------------------------------
(* The tutorial script: the statements of test(), in order *)

\* Bound on the pages the library serves to the paging loop.
MaxPages == 3

NumUsers == 200
BatchSize == 25
PageLimit == 25

Stmt(line, kind) == [line |-> line, kind |-> kind]

\* kind "await": an awaited library call; "sync": a synchronous library call;
\* "float": a library call whose promise is not awaited; "batch": the batch
\* loop; "page": the paging loop
Script == <<
    Stmt(67, "await"),   \* table.createTable
    Stmt(72, "sync"),    \* table.getModel('Account')
    Stmt(73, "sync"),    \* table.getModel('Invoice')
    Stmt(74, "sync"),    \* table.getModel('Product')
    Stmt(75, "sync"),    \* table.getModel('User')
    Stmt(81, "await"),   \* Account.create
    Stmt(86, "sync"),    \* table.setContext
    Stmt(91, "await"),   \* User.create
    Stmt(93, "await"),   \* User.get
    Stmt(98, "await"),   \* User.get
    Stmt(103, "await"),  \* User.find
    Stmt(108, "await"),  \* User.find
    Stmt(113, "await"),  \* User.update
    Stmt(118, "await"),  \* User.update
    Stmt(123, "await"),  \* User.update
    Stmt(124, "await"),  \* User.update
    Stmt(125, "await"),  \* User.update
    Stmt(128, "await"),  \* User.find
    Stmt(138, "await"),  \* table.fetch
    Stmt(146, "batch"),  \* while (i++ < 200) { User.create; table.batchWrite }
    Stmt(158, "await"),  \* User.find
    Stmt(164, "page"),   \* do { User.find } while (users.start)
    Stmt(172, "await"),  \* Product.create
    Stmt(178, "float"),  \* Invoice.create, {transaction}
    Stmt(179, "float"),  \* User.update, {transaction}
    Stmt(180, "float"),  \* Account.update, {transaction}
    Stmt(181, "await"),  \* table.transact
    Stmt(186, "await"),  \* table.fetch
    Stmt(194, "await"),  \* Invoice.find
    Stmt(206, "await"),  \* Account.find
    Stmt(207, "await"),  \* User.find
    Stmt(208, "await"),  \* Invoice.find
    Stmt(213, "await")   \* table.deleteTable
>>

NSteps == Len(Script)

\* where the two loops are in Script
BatchStmt == CHOOSE k \in 1 .. NSteps : Script[k].kind = "batch"

PageStmt == CHOOSE k \in 1 .. NSteps : Script[k].kind = "page"

BatchWriteLine == 149
PageFindLine == 165

AtStmt(kind) ==
    /\ mpc = "test"
    /\ awaiting = 0
    /\ pc \in 1 .. NSteps
    /\ Script[pc].kind = kind

\* a call issued without await: its promise is already settled when the call
\* returns (fulfilled or rejected), or it settles later
FloatOutcomes == {"pending", "fulfilled", "rejected"}

Float(outcome) ==
    /\ floating' = IF outcome = "pending" THEN floating + 1 ELSE floating
    /\ rejected' = (rejected \/ outcome = "rejected")

\* calls started and not settled
Outstanding == floating + (IF awaiting # 0 THEN 1 ELSE 0)

----------------------------------------------------------------------------
(* main, start, stop *)

\* where main goes when `await test()` throws: the catch clause
AfterThrow == "catch"

\* main calls start(): spawn the database, then wait for delay(1000)
Start ==
    /\ mpc = "start"
    /\ dynamodb' = "running"
    /\ mpc' = "delay"
    /\ UNCHANGED <<logged, stopCalls, killedBusy, testVars, floatVars,
                   batchVars, pageVars, goVars>>

\* DynamoDbLocal.spawn throws: start() rejects, `await start()` is outside the
\* try, so main() rejects and the process ends with dynamodb still null
StartThrow ==
    /\ mpc = "start"
    /\ mpc' = "exited"
    /\ UNCHANGED <<dynamodb, logged, stopCalls, killedBusy, testVars, floatVars,
                   batchVars, pageVars, goVars>>

\* delay's timer fires, start() returns and main calls test()
Delay ==
    /\ mpc = "delay"
    /\ mpc' = "test"
    /\ pc' = 1
    /\ testState' = "running"
    /\ UNCHANGED <<dynamodb, logged, stopCalls, killedBusy, awaiting, err,
                   issued, floatVars, batchVars, pageVars, goVars>>

\* catch (err) { console.error(err) }
Catch ==
    /\ mpc = "catch"
    /\ logged' = err
    /\ mpc' = "stop"
    /\ UNCHANGED <<dynamodb, stopCalls, killedBusy, testVars, floatVars,
                   batchVars, pageVars, goVars>>

\* await stop(): process.kill(dynamodb.pid)
Stop ==
    /\ mpc = "stop"
    /\ stopCalls' = stopCalls + 1
    /\ dynamodb' = "killed"
    /\ killedBusy' = (Outstanding > 0)
    /\ mpc' = "done"
    /\ UNCHANGED <<logged, testVars, floatVars, batchVars, pageVars, goVars>>

----------------------------------------------------------------------------
(* test *)

\* test() throws the failure of the call at `line`
Throw(line) ==
    /\ err' = line
    /\ testState' = "threw"
    /\ awaiting' = 0
    /\ mpc' = AfterThrow
    /\ UNCHANGED pc

\* test() moves to the next statement, or returns after the last
Advance ==
    /\ pc' = pc + 1
    /\ awaiting' = 0
    /\ err' = err
    /\ IF pc + 1 > NSteps
       THEN testState' = "returned" /\ mpc' = "stop"
       ELSE UNCHANGED <<testState, mpc>>

\* an awaited call is issued and test() is suspended
Issue ==
    /\ AtStmt("await")
    /\ awaiting' = Script[pc].line
    /\ issued' = issued + 1
    /\ UNCHANGED <<mainVars, pc, testState, err, floatVars, batchVars,
                   pageVars, goVars>>

\* the awaited call is fulfilled and test() resumes
Resume ==
    /\ mpc = "test"
    /\ awaiting # 0
    /\ Script[pc].kind = "await"
    /\ Advance
    /\ UNCHANGED <<dynamodb, logged, stopCalls, killedBusy, issued, floatVars,
                   batchVars, pageVars, goVars>>

\* the awaited call is rejected: the await throws out of test()
Fail ==
    /\ mpc = "test"
    /\ awaiting # 0
    /\ Throw(awaiting)
    /\ UNCHANGED <<dynamodb, logged, stopCalls, killedBusy, issued, floatVars,
                   batchVars, pageVars, goVars>>

\* a synchronous library call returns
SyncReturn ==
    /\ AtStmt("sync")
    /\ issued' = issued + 1
    /\ Advance
    /\ UNCHANGED <<dynamodb, logged, stopCalls, killedBusy, floatVars,
                   batchVars, pageVars, goVars>>

\* a synchronous library call throws
SyncThrow ==
    /\ AtStmt("sync")
    /\ issued' = issued + 1
    /\ Throw(Script[pc].line)
    /\ UNCHANGED <<dynamodb, logged, stopCalls, killedBusy, floatVars,
                   batchVars, pageVars, goVars>>

\* lines 178-180: a call queued into the transaction, its promise dropped
Queue ==
    /\ AtStmt("float")
    /\ issued' = issued + 1
    /\ \E o \in FloatOutcomes : Float(o)
    /\ Advance
    /\ UNCHANGED <<dynamodb, logged, stopCalls, killedBusy, batchVars,
                   pageVars, goVars>>

\* a call issued without await settles while the script is suspended
Suspended == awaiting # 0 \/ mpc \in {"catch", "stop", "done"}

FloatSettle ==
    /\ mpc \notin {"off", "exited"}
    /\ Suspended
    /\ floating > 0
    /\ floating' = floating - 1
    /\ \E ok \in BOOLEAN : rejected' = (rejected \/ ~ok)
    /\ UNCHANGED <<mainVars, testVars, batchVars, pageVars, goVars>>

\* nothing handles the rejection of a promise that was not awaited: once the
\* script has returned to the event loop the runtime ends the process, with
\* no further call, nothing logged and stop() not called
UnhandledRejection ==
    /\ mpc \in {"test", "catch", "stop"}
    /\ Suspended
    /\ rejected
    /\ mpc' = "exited"
    /\ UNCHANGED <<dynamodb, logged, stopCalls, killedBusy, testVars, floatVars,
                   batchVars, pageVars, goVars>>

----------------------------------------------------------------------------
(* test: the batch loop, lines 143-153 *)

\* the flush test with > in place of >=
FlushDue_gt(n) == n > BatchSize

\* if (++count >= 25)
FlushDue(n) == n >= BatchSize

\* one iteration: i++ < 200 holds, User.create is queued into batch, and
\* table.batchWrite(batch) is awaited when the batch is due
BatchCreate ==
    /\ AtStmt("batch")
    /\ i < NumUsers
    /\ i' = i + 1
    /\ \E o \in FloatOutcomes : Float(o)
    /\ batch' = batch \cup {i + 1}
    /\ count' = count + 1
    /\ IF FlushDue(count + 1)
       THEN /\ awaiting' = BatchWriteLine
            /\ flushed' = flushed \cup batch'
            /\ flushes' = Append(flushes, Cardinality(batch'))
            /\ issued' = issued + 2
       ELSE /\ issued' = issued + 1
            /\ UNCHANGED <<awaiting, flushed, flushes>>
    /\ UNCHANGED <<mainVars, pc, testState, err, pageVars, goVars>>

\* table.batchWrite is fulfilled: batch = {}, count = 0
BatchWritten ==
    /\ mpc = "test"
    /\ awaiting = BatchWriteLine
    /\ awaiting' = 0
    /\ batch' = {}
    /\ count' = 0
    /\ UNCHANGED <<mainVars, pc, testState, err, issued, floatVars, i, flushed,
                   flushes, pageVars, goVars>>

\* i++ < 200 fails: the loop ends
BatchExit ==
    /\ AtStmt("batch")
    /\ ~(i < NumUsers)
    /\ i' = i + 1
    /\ Advance
    /\ UNCHANGED <<dynamodb, logged, stopCalls, killedBusy, issued, floatVars,
                   count, batch, flushed, flushes, pageVars, goVars>>

----------------------------------------------------------------------------
(* test: the paging loop, lines 163-167 *)

\* the page the library serves for a cursor: the one after it
LibPage(cursor) == cursor + 1

\* the cursors the library may return with that page: none (0), or the
\* cursor of the page served while pages remain
LibNext(cursor) ==
    {0} \cup (IF LibPage(cursor) < MaxPages THEN {LibPage(cursor)} ELSE {})

\* the loop never taking the returned cursor
NextStart_stale(usersStart) == 0

\* start = users.start
NextStart(usersStart) == usersStart

\* users = await User.find({}, {start, limit: 25})
PageFind ==
    /\ AtStmt("page")
    /\ Len(findArgs) <= MaxPages
    /\ awaiting' = PageFindLine
    /\ issued' = issued + 1
    /\ findArgs' = Append(findArgs, [start |-> start, limit |-> PageLimit])
    /\ UNCHANGED <<mainVars, pc, testState, err, floatVars, batchVars, start,
                   visited, goVars>>

\* the page arrives: start = users.start; while (users.start)
PageDone ==
    /\ mpc = "test"
    /\ awaiting = PageFindLine
    /\ \E usersStart \in LibNext(start) :
        /\ visited' = Append(visited, LibPage(start))
        /\ start' = NextStart(usersStart)
        /\ IF usersStart # 0
           THEN /\ awaiting' = 0
                /\ UNCHANGED <<pc, testState, mpc, err>>
           ELSE Advance
    /\ UNCHANGED <<dynamodb, logged, stopCalls, killedBusy, issued, floatVars,
                   batchVars, findArgs, goVars>>

----------------------------------------------------------------------------

Init ==
    /\ gpc = "off"
    /\ GoIdle
    /\ FuncsIdle
    /\ mpc = "start" /\ dynamodb = "null" /\ logged = 0 /\ stopCalls = 0
    /\ killedBusy = FALSE
    /\ pc = 0 /\ testState = "idle" /\ awaiting = 0 /\ err = 0 /\ issued = 0
    /\ floating = 0 /\ rejected = FALSE
    /\ i = 0 /\ count = 0 /\ batch = {} /\ flushed = {} /\ flushes = <<>>
    /\ start = 0 /\ findArgs = <<>> /\ visited = <<>>

Next ==
    \/ Start
    \/ StartThrow
    \/ Delay
    \/ Catch
    \/ Stop
    \/ Issue
    \/ Resume
    \/ Fail
    \/ SyncReturn
    \/ SyncThrow
    \/ Queue
    \/ FloatSettle
    \/ UnhandledRejection
    \/ BatchCreate
    \/ BatchWritten
    \/ BatchExit
    \/ PageFind
    \/ PageDone

Spec == Init /\ [][Next]_vars

\* every call the library was given settles, and the script runs whenever it
\* can, until the process ends: no step stays enabled forever without being
\* taken
FairSpec == Spec /\ WF_vars(Next)

----------------------------------------------------------------------------
(* Properties of the bit-flag demo, checked under SpecBits *)

\* every bit of x other than the bits of `bit` equals that bit of y
SameExcept(x, y, bit) ==
    \A k \in 0 .. (WordBits - 1) : Pow2(k) # bit => Bit(x, k) = Bit(y, k)

\* C1: after TurnDown(&v) the FlagUp bit of v is 0 and every other bit of v
\* is what it was before the call.
C1_TurnDownClearsOnlyUp ==
    last = "TurnDown" =>
        /\ BitAnd(fv, FlagUp) = 0
        /\ SameExcept(fv, prev, FlagUp)

\* TurnDown was called on a value with FlagUp and other bits set
C1_Witness ==
    /\ last = "TurnDown"
    /\ BitAnd(prev, FlagUp) = FlagUp
    /\ prev > FlagUp
    /\ fv = prev - FlagUp

\* C2: after SetBroadcast(&v) on a v whose FlagBroadcast bit is 0, that bit
\* is 1 and every other bit of v is what it was before the call.
C2_SetBroadcastSetsOnlyBroadcast ==
    (last = "SetBroadcast" /\ BitAnd(prev, FlagBroadcast) = 0) =>
        /\ BitAnd(fv, FlagBroadcast) = FlagBroadcast
        /\ SameExcept(fv, prev, FlagBroadcast)

\* SetBroadcast was called on a value lacking the bit
C2_Witness ==
    /\ last = "SetBroadcast"
    /\ BitAnd(prev, FlagBroadcast) = 0
    /\ fv = prev + FlagBroadcast

\* C3 as stated: for every value and every flag bit, AND-NOT of the bit and
\* then OR of the same bit gives the original value back.
C3_RoundTripAlways ==
    last = "Or" => fv = orig

\* C3 amended: for every value and every flag bit that is set in the value,
\* AND-NOT of the bit and then OR of the same bit gives the original value
\* back.
C3_RoundTripWhenSet ==
    (last = "Or" /\ BitAnd(orig, fb) = fb) => fv = orig

\* the round trip was made on a bit that was set, in a value with other bits
C3_Witness ==
    /\ last = "Or"
    /\ BitAnd(orig, fb) = fb
    /\ orig > fb
    /\ prev = orig - fb
    /\ fv = orig

\* C10: once TurnDown and SetBroadcast have each been called at least once,
\* in any order and any number of times, the value is the starting value with
\* the FlagUp bit 0, the FlagBroadcast bit 1 and every other bit unchanged;
\* IsUp is false and IsCast is true.
C10_OrderAndRepetitionIrrelevant ==
    calls = {"TurnDown", "SetBroadcast"} =>
        /\ \A k \in 0 .. (WordBits - 1) :
              Bit(fv, k) = IF Pow2(k) = FlagUp THEN 0
                           ELSE IF Pow2(k) = FlagBroadcast THEN 1
                           ELSE Bit(orig, k)
        /\ ~IsUp(fv)
        /\ IsCast(fv)

\* both were called, TurnDown last and for at least the second time, from a
\* value that was up and not broadcast
C10_Witness ==
    /\ calls = {"TurnDown", "SetBroadcast"}
    /\ last = "TurnDown"
    /\ prev = fv
    /\ IsUp(orig)
    /\ BitAnd(orig, FlagBroadcast) = 0
    /\ fv = orig - FlagUp + FlagBroadcast

\* C7: the five arithmetic lines of main print the values of their comments:
\* 12, 61, 49, 240 and 15.
C7_PrintsCommentValues ==
    \A k \in 1 .. Len(out) :
        /\ out[k].tag = "Line 1" => out[k].val = 12
        /\ out[k].tag = "Line 2" => out[k].val = 61
        /\ out[k].tag = "Line 3" => out[k].val = 49
        /\ out[k].tag = "Line 4" => out[k].val = 240
        /\ out[k].tag = "Line 5" => out[k].val = 15

----------------------------------------------------------------------------
(* Properties of the tutorial script, checked under Spec and FairSpec *)

\* C4: in a run in which test() was called, stop() has been invoked when the
\* process ends, exactly once, after test() ended and after the error, if
\* test() threw one, was logged.
C4_StopAlwaysAttempted ==
    /\ stopCalls <= 1
    /\ stopCalls = 1 =>
            /\ testState \in {"returned", "threw"}
            /\ testState = "threw" => (err # 0 /\ logged = err)
    /\ (mpc \in {"done", "exited"} /\ testState # "idle") => stopCalls = 1

\* C5: once a library call issued by test() has failed, awaited or not, no
\* later library call is issued, and the failure reaches main's handler.
C5_FailureAbortsSequence ==
    /\ [][(err # 0 \/ rejected) => issued' = issued]_vars
    /\ []((mpc \in {"done", "exited"} /\ (err # 0 \/ rejected)) => logged # 0)

\* C6: at most one library call is outstanding at any time, and none is when
\* stop() kills the database process.
C6_NoConcurrentCalls ==
    /\ Outstanding <= 1
    /\ ~killedBusy

\* C8: every batch passed to table.batchWrite holds exactly 25 creates,
\* table.batchWrite is called exactly when 25 creates were queued since the
\* last flush, and when the loop has ended 200 creates were queued and each
\* was passed to some table.batchWrite call.
C8_BatchesOfTwentyFive ==
    /\ \A k \in 1 .. Len(flushes) : flushes[k] = BatchSize
    /\ Cardinality(batch) = count
    /\ flushed \cup batch = 1 .. (IF i > NumUsers THEN NumUsers ELSE i)
    /\ (awaiting = 0 /\ err = 0) => (count < BatchSize /\ batch \cap flushed = {})
    /\ awaiting = BatchWriteLine => (count = BatchSize /\ batch \subseteq flushed)
    /\ pc > BatchStmt =>
            /\ i = NumUsers + 1
            /\ flushed = 1 .. NumUsers
            /\ batch = {}
            /\ Len(flushes) * BatchSize = NumUsers

\* the loop has ended and the last user was flushed
C8_Witness ==
    /\ pc = BatchStmt + 1
    /\ i = NumUsers + 1
    /\ NumUsers \in flushed
    /\ Len(flushes) > 1

\* C9: the k-th paged User.find call is given the cursor the (k-1)-th
\* returned (none on the first) with limit 25, no page is visited twice, the
\* loop ends at the first page returned without a cursor, and the loop is
\* always left.
C9_PagingTerminates ==
    /\ (mpc = "test" /\ pc = PageStmt) ~> (mpc # "test" \/ pc # PageStmt)
    /\ [](\A k \in 1 .. Len(findArgs) :
            /\ findArgs[k].limit = PageLimit
            /\ findArgs[k].start = k - 1)
    /\ [](\A k \in 1 .. Len(visited) : visited[k] = k)
    /\ [](Len(findArgs) <= MaxPages)
    /\ [](pc > PageStmt =>
            (start = 0 /\ Len(visited) = Len(findArgs) /\ Len(visited) >= 1))

\* the loop ended after more than one page
C9_Witness ==
    /\ pc = PageStmt + 1
    /\ Len(visited) = MaxPages
    /\ start = 0

====
